---- MODULE Spec2Model ----
(***************************************************************************)
(* Model of the flight-tail-optimizer engine (services/optimizerEngine):   *)
(* the rotation validator validateRotation, with the helpers it uses, and  *)
(* a caller that builds a leg collection and validates it.                 *)
(*                                                                         *)
(* A clock string "HH:mm" is a sequence of one-character strings, so that  *)
(* parseTime really splits and converts it; a reason text is a sequence of *)
(* string pieces (the literal parts of the template and the interpolated   *)
(* values).                                                                *)
(***************************************************************************)
EXTENDS Integers, Sequences, FiniteSets, TLC

VARIABLES
    legs,        \* the caller's leg collection (the array passed to validateRotation)
    pc,          \* the caller: "idle" (building), "once" (validated), "twice" (validated again)
    sortedLegs,  \* the local sortedLegs of the last call
    result,      \* what the last call returned (or that it threw)
    prevResult,  \* what the call before the last returned, when there were two
    legsBefore,  \* the caller's collection as it was when the last call started
    delay,       \* a caller of calculateDelayRisk: its input, the score, the score before
    maint,       \* a caller of calculateMaintenanceRisk: the aircraft, the clock, the risk
    swap,        \* a caller of optimizeTailSwap: its arguments, the clock, the scenario
    level,       \* a score and the risk level the delay page and RiskBadge give it
    calls,       \* a host calling the four operations in any order: the clock, the calls made
    parse,       \* a caller handing a clock string or an aircraft record to the engine
    delayPage,   \* DelayRiskPage: riskScore, riskLevel, error, isLoading, the request in flight
    rotationPage,\* RotationPage: legs, validationResult, isLoading, the requests in flight
    standalone   \* the four engine pages used while the backend never answers

\* The state of the hosts and pages.
pageVars == <<calls, parse, delayPage, rotationPage, standalone>>

\* The state of the engines' callers other than the rotation's.
engineVars == <<delay, maint, swap, level, pageVars>>

vars == <<legs, pc, sortedLegs, result, prevResult, legsBefore, engineVars>>

(***************************************************************************)
(* Bounds and inputs                                                       *)
(***************************************************************************)
MaxLegs == 3

DigitChars == <<"0", "1", "2", "3", "4", "5", "6", "7", "8", "9">>

\* The "HH:mm" text of a clock value, as the forms and the tests write it.
Clock(hh, mm) ==
    << DigitChars[(hh \div 10) + 1], DigitChars[(hh % 10) + 1], ":",
       DigitChars[(mm \div 10) + 1], DigitChars[(mm % 10) + 1] >>

\* (origin, destination) pairs: the two legs of the rotation page's initial
\* rotation, and a leg to a third station.
Routes == { <<"IST", "LHR">>, <<"LHR", "IST">>, <<"IST", "JFK">> }

\* Scheduled (departure, arrival) pairs.  After 08:00-10:00, a departure at
\* 11:30 is a gap of 90, at 10:20 a gap of 20, at 10:00 a gap of 0, at 09:00
\* an overlap; arrivals at 10:45 and 10:46 before 11:30 are gaps of 45 and 44.
Schedules ==
    { <<Clock(8, 0),   Clock(10, 0)>>,
      <<Clock(11, 30), Clock(15, 30)>>,
      <<Clock(10, 20), Clock(10, 46)>>,
      <<Clock(9, 0),   Clock(11, 0)>>,
      <<Clock(10, 0),  Clock(10, 45)>> }

\* A FlightLeg; flightNumber and status are not read by the engine.
FlightLeg(id, route, schedule) ==
    [ id |-> id, origin |-> route[1], destination |-> route[2],
      schedDep |-> schedule[1], schedArr |-> schedule[2] ]

(***************************************************************************)
(* Helpers                                                                 *)
(***************************************************************************)
MCT_MINUTES == 45

\* String.prototype.split(':'): the pieces between the separators.
RECURSIVE SplitFrom(_, _, _)
SplitFrom(str, k, piece) ==
    IF k > Len(str) THEN <<piece>>
    ELSE IF str[k] = ":" THEN <<piece>> \o SplitFrom(str, k + 1, <<>>)
    ELSE SplitFrom(str, k + 1, Append(piece, str[k]))

Split(str) == SplitFrom(str, 1, <<>>)

DigitValue(ch) == (CHOOSE d \in 1..10 : DigitChars[d] = ch) - 1

\* Number(s) for a string of decimal digits ("" is 0).
RECURSIVE Number(_)
Number(s) ==
    IF Len(s) = 0 THEN 0
    ELSE Number(SubSeq(s, 1, Len(s) - 1)) * 10 + DigitValue(s[Len(s)])

\* String(n) for an integer n >= 0.
RECURSIVE NumberToString(_)
NumberToString(n) ==
    IF n < 10 THEN <<DigitChars[n + 1]>>
    ELSE NumberToString(n \div 10) \o <<DigitChars[(n % 10) + 1]>>

\* Number(s) is NaN for a string with a character that is no digit (of the
\* characters used here: digits, ":" and a letter).
IsNumeric(s) == \A k \in 1..Len(s) : \E d \in 1..10 : DigitChars[d] = s[k]

\* parseTime(timeStr) is NaN: hh or mm is NaN, or there is no second piece
\* (mm undefined, which makes the sum NaN).
parseTimeIsNaN(timeStr) ==
    LET parts == Split(timeStr)
    IN  \/ Len(parts) < 2
        \/ ~IsNumeric(parts[1])
        \/ ~IsNumeric(parts[2])

\* parseTime(timeStr) when it is a number.
parseTime(timeStr) ==
    LET parts == Split(timeStr)
        hh == Number(parts[1])
        mm == Number(parts[2])
    IN  hh * 60 + mm

(***************************************************************************)
(* Array.prototype.sort with the comparator of validateRotation.  The      *)
(* language requires the sort to be stable: an element is placed before    *)
(* the first one the comparator puts strictly after it.                    *)
(***************************************************************************)
compareDeparture(a, b) == parseTime(a.schedDep) - parseTime(b.schedDep)

\* Variant: an unstable sort, which also moves an element before its ties.
ComesAfterTies(e, x) == compareDeparture(e, x) >= 0

\* The comparator puts e strictly after x.
ComesAfter(e, x) == compareDeparture(e, x) > 0

RECURSIVE InsertSorted(_, _)
InsertSorted(sorted, x) ==
    IF sorted = <<>> THEN <<x>>
    ELSE IF ComesAfter(Head(sorted), x) THEN <<x>> \o sorted
    ELSE <<Head(sorted)>> \o InsertSorted(Tail(sorted), x)

\* Variant: the copy left in the caller's order.
SortNone(arr) == arr

RECURSIVE Sort(_)
Sort(arr) ==
    IF arr = <<>> THEN <<>>
    ELSE InsertSorted(Sort(SubSeq(arr, 1, Len(arr) - 1)), arr[Len(arr)])

(***************************************************************************)
(* validateRotation                                                        *)
(***************************************************************************)
LocationReason(current, next) ==
    <<"Location mismatch: Arr ", current.destination, " != Dep ", next.origin>>

OverlapReason(current, next) ==
    <<"Schedule Overlap: Arrives ">> \o current.schedArr
        \o <<", Departs ">> \o next.schedDep

MCTReason(arrTime, nextDepTime) ==
    <<"MCT Violation: Only ">> \o NumberToString(nextDepTime - arrTime)
        \o <<" min available (Req: ">> \o NumberToString(MCT_MINUTES) \o <<")">>

RotationConflict(legId, reason, severity) ==
    [legId |-> legId, reason |-> reason, severity |-> severity]

\* Variant: conflicts.unshift(c).
PushFront(conflicts, c) == <<c>> \o conflicts

\* conflicts.push(c)
Push(conflicts, c) == Append(conflicts, c)

\* Variant: Check 1 comparing the two origins.
LocationMismatchSameLeg(current, next) == current.origin # next.origin

\* Check 1: geographic continuity.
LocationMismatch(current, next) == current.destination # next.origin

\* Variant: Check 2 with >=.
OverlapsOrTouches(arrTime, nextDepTime) == arrTime >= nextDepTime

\* Check 2: overlap or negative turnaround.
Overlaps(arrTime, nextDepTime) == arrTime > nextDepTime

\* Variant: Check 3 with <=.
MCTViolatedInclusive(arrTime, nextDepTime) == nextDepTime - arrTime <= MCT_MINUTES

\* Check 3: minimum connection time.
MCTViolated(arrTime, nextDepTime) == nextDepTime - arrTime < MCT_MINUTES

\* Variant: the loop stopping one pair early, i < sortedLegs.length - 2.
LoopConditionSkipLast(i, length) == i < length - 2

\* Variant: the loop running to the last element, i < sortedLegs.length.
LoopConditionToLast(i, length) == i < length

\* The loop condition i < sortedLegs.length - 1.
LoopCondition(i, length) == i < length - 1

\* The conflicts after Check 2 and Check 3 of one pair (Check 2 ends the
\* iteration with continue).
TimeChecks(conflicts, current, next, arrTime, nextDepTime) ==
    IF Overlaps(arrTime, nextDepTime)
    THEN Push(conflicts, RotationConflict(next.id, OverlapReason(current, next), "ERROR"))
    ELSE IF MCTViolated(arrTime, nextDepTime)
    THEN Push(conflicts, RotationConflict(next.id, MCTReason(arrTime, nextDepTime), "WARNING"))
    ELSE conflicts

\* Variant: the time checks as the else branch of Check 1.
PairChecksElse(conflicts, current, next) ==
    LET arrTime == parseTime(current.schedArr)
        nextDepTime == parseTime(next.schedDep)
    IN  IF LocationMismatch(current, next)
        THEN Push(conflicts, RotationConflict(next.id, LocationReason(current, next), "ERROR"))
        ELSE TimeChecks(conflicts, current, next, arrTime, nextDepTime)

\* One iteration of the loop body: Check 1, then, whatever Check 1 found, the
\* time checks.
PairChecks(conflicts, current, next) ==
    LET arrTime == parseTime(current.schedArr)
        nextDepTime == parseTime(next.schedDep)
        afterCheck1 ==
            IF LocationMismatch(current, next)
            THEN Push(conflicts, RotationConflict(next.id, LocationReason(current, next), "ERROR"))
            ELSE conflicts
    IN  TimeChecks(afterCheck1, current, next, arrTime, nextDepTime)

\* Variant: an invalid rotation thrown as an error.
ReturnedIfValid(conflicts, isValid) ==
    IF isValid
    THEN [outcome |-> "returned", isValid |-> isValid, conflicts |-> conflicts]
    ELSE [outcome |-> "RotationInvalid", isValid |-> FALSE, conflicts |-> <<>>]

\* What a call ends with: a returned value, or a thrown TypeError (reading a
\* property of an element past the end of the array, which is undefined).
Returned(conflicts, isValid) ==
    [outcome |-> "returned", isValid |-> isValid, conflicts |-> conflicts]

Threw == [outcome |-> "TypeError", isValid |-> FALSE, conflicts |-> <<>>]

NoResult == [outcome |-> "none", isValid |-> FALSE, conflicts |-> <<>>]

\* Variant: valid with warnings.
IsValidNoError(conflicts) == \A k \in 1..Len(conflicts) : conflicts[k].severity # "ERROR"

\* isValid: conflicts.length === 0
IsValid(conflicts) == Len(conflicts) = 0

\* for (let i = 0; i < sortedLegs.length - 1; i++) { ... }, i counting from 0.
RECURSIVE Loop(_, _, _)
Loop(sorted, i, conflicts) ==
    IF ~LoopCondition(i, Len(sorted)) THEN Returned(conflicts, IsValid(conflicts))
    ELSE IF i + 2 > Len(sorted) THEN Threw
    ELSE Loop(sorted, i + 1, PairChecks(conflicts, sorted[i + 1], sorted[i + 2]))

\* Variant: one conflicts array shared by all calls.
ConflictsKept(stale) == stale

\* const conflicts = []: a new array in every call; stale is what an earlier
\* call left behind.
NewConflicts(stale) == <<>>

\* Variant: legs.sort(...), sorting the argument itself.
SortReceiverArg == "arg"

\* The array that sort() is called on, and so reorders in place: the spread
\* copy [...legs], not the argument.
SortReceiver == "copy"

\* The call: the arrays after it (arg is the caller's), the local sortedLegs
\* and the outcome.
validateRotation(legsArg, stale) ==
    LET spread == [arg |-> legsArg, copy |-> legsArg]
        arrays == [spread EXCEPT ![SortReceiver] = Sort(spread[SortReceiver])]
        sorted == arrays[SortReceiver]
    IN  [ arg |-> arrays.arg, sortedLegs |-> sorted,
          result |-> Loop(sorted, 0, NewConflicts(stale)) ]

(***************************************************************************)
(* Numbers.  The scores are decimal fractions: a score is held as a whole   *)
(* number of millionths, in which every weight of the engine, every         *)
(* product by 0.8 and by 1.1 and every threshold is exact.  (The rounding   *)
(* of binary floating point, some 10^-16, is not modelled.)                 *)
(***************************************************************************)
Unit == 1000 * 1000

\* A decimal literal with two places, 0.05 as Hundredths(5).
Hundredths(n) == n * (Unit \div 100)

Min(a, b) == IF a < b THEN a ELSE b

Max(a, b) == IF a > b THEN a ELSE b

\* A caller or a page at rest, before its first call.
Idle == [pc |-> "idle"]

\* The hosts and pages at rest.
PagesIdle ==
    /\ calls = Idle
    /\ parse = Idle
    /\ delayPage = Idle
    /\ rotationPage = Idle
    /\ standalone = Idle

\* The rotation's caller at rest, while another engine is exercised.
RotationIdle ==
    /\ legs = <<>>
    /\ pc = "idle"
    /\ sortedLegs = <<>>
    /\ result = NoResult
    /\ prevResult = NoResult
    /\ legsBefore = <<>>

rotationVars == <<legs, pc, sortedLegs, result, prevResult, legsBefore>>

(***************************************************************************)
(* calculateMaintenanceRisk.  Time is counted in hours: a lastMaintenance  *)
(* date is a day number and parses to its midnight, the clock (new Date())  *)
(* is an hour number.                                                       *)
(***************************************************************************)
HoursPerDay == 24

\* An Aircraft; type is not read by the engine.
Aircraft(tailNumber, ageYears, cycles, lastMaintenance, snagCount) ==
    [ tailNumber |-> tailNumber, ageYears |-> ageYears, cycles |-> cycles,
      lastMaintenance |-> lastMaintenance, snagCount |-> snagCount ]

\* new Date(ac.lastMaintenance).getTime()
DateTime(day) == day * HoursPerDay

\* Variant: due from the thirtieth day on.
MaintenanceDueFrom30(now, lastMaintenance) ==
    now - DateTime(lastMaintenance) >= 30 * HoursPerDay

\* daysSinceMaint > 30, the days a fraction: (now - then) / HoursPerDay > 30.
MaintenanceDue(now, lastMaintenance) ==
    now - DateTime(lastMaintenance) > 30 * HoursPerDay

\* Variant: the sum returned as it is.
ClampRiskNone(risk) == risk

\* Math.min(Math.max(risk, 0), 1)
ClampRisk(risk) == Min(Max(risk, 0), Unit)

\* The risk of ac when the clock reads now.
calculateMaintenanceRisk(ac, now) ==
    LET base == Hundredths(5)
        age == ac.ageYears * ((Unit * 15) \div 1000)
        cyc == ac.cycles * ((Unit \div 10) \div 10000)
        snag == ac.snagCount * Hundredths(8)
        due == IF MaintenanceDue(now, ac.lastMaintenance) THEN Hundredths(15) ELSE 0
    IN  ClampRisk(base + age + cyc + snag + due)

\* The aircraft scored: ages, cycles and snag counts from none to well past
\* the ceiling, maintained on day 0 or day 10.
\* Clock readings: day 5 (before the maintenance of day 10), 30 days to the
\* hour after day 0 and an hour later, the same after day 10.
Clocks == {120, 720, 721, 960, 961}

Fleet ==
    LET Ages == {0, 2, 15, 40}
        CycleCounts == {0, 1200, 18900, 60000}
        SnagCounts == {0, 5, 12}
        MaintenanceDays == {0, 10}
    IN  { Aircraft("TC-JNA", a, c, d, n) :
            a \in Ages, c \in CycleCounts, d \in MaintenanceDays, n \in SnagCounts }

\* A caller holding an aircraft, and the clock.
InitMaint ==
    /\ RotationIdle
    /\ PagesIdle
    /\ delay = Idle
    /\ swap = Idle
    /\ level = Idle
    /\ maint \in [pc : {"ready"}, ac : Fleet, now : Clocks, risk : {0}]

\* risk = calculateMaintenanceRisk(ac)
ScoreMaintenance ==
    /\ maint.pc = "ready"
    /\ maint' = [maint EXCEPT !.pc = "scored",
                              !.risk = calculateMaintenanceRisk(maint.ac, maint.now)]
    /\ UNCHANGED <<rotationVars, delay, swap, level, pageVars>>

SpecMaint == InitMaint /\ [][ScoreMaintenance]_vars

(***************************************************************************)
(* optimizeTailSwap.  The clock is read once for each aircraft, the second  *)
(* reading not before the first.                                            *)
(***************************************************************************)
NotFeasibleText == "Swap not feasible due to rotation conflicts."

StrongText ==
    "STRONG RECOMMENDATION: Swap tails to mitigate maintenance risk on tight rotation."

MarginalText == "Marginal benefit. Swap at discretion."

KeepText == "Keep current assignment."

\* Variant: one valid rotation is enough.
FeasibleEither(feasibility1, feasibility2) ==
    feasibility1.isValid \/ feasibility2.isValid

\* feasible = feasibility1.isValid && feasibility2.isValid
Feasible(feasibility1, feasibility2) ==
    feasibility1.isValid /\ feasibility2.isValid

\* Variant: a tie in load counts as the heavier schedule.
RiskierOnHeavierOrEqual(riskX, riskY, loadX, loadY) == riskX > riskY /\ loadX >= loadY

\* baseRiskX > baseRiskY && legsXLoad > legsYLoad
RiskierOnHeavier(riskX, riskY, loadX, loadY) == riskX > riskY /\ loadX > loadY

\* risk * 0.8 and risk * 1.1
Times08(risk) == (risk * 8) \div 10

Times11(risk) == (risk * 11) \div 10

\* Variant: the difference taken the other way round.
ImprovementReversed(totalBaseRisk, totalNewRisk) == (totalNewRisk - totalBaseRisk) * 100

\* improvement = (totalBaseRisk - totalNewRisk) * 100
Improvement(totalBaseRisk, totalNewRisk) == (totalBaseRisk - totalNewRisk) * 100

\* Variant: the strong recommendation from 5 on.
RecommendFrom5(feasible, improvement) ==
    IF ~feasible THEN NotFeasibleText
    ELSE IF improvement >= 5 * Unit THEN StrongText
    ELSE IF improvement > 0 THEN MarginalText
    ELSE KeepText

\* The recommendation: the if / else if chain of lines 160-167.
Recommend(feasible, improvement) ==
    IF ~feasible THEN NotFeasibleText
    ELSE IF improvement > 5 * Unit THEN StrongText
    ELSE IF improvement > 0 THEN MarginalText
    ELSE KeepText

optimizeTailSwap(ac1, legs1, ac2, legs2, now1, now2) ==
    LET baseRisk1 == calculateMaintenanceRisk(ac1, now1)
        baseRisk2 == calculateMaintenanceRisk(ac2, now2)
        totalBaseRisk == baseRisk1 + baseRisk2
        feasibility1 == validateRotation(legs2, <<>>).result
        feasibility2 == validateRotation(legs1, <<>>).result
        feasible == Feasible(feasibility1, feasibility2)
        legs1Load == Len(legs1)
        legs2Load == Len(legs2)
        first == RiskierOnHeavier(baseRisk1, baseRisk2, legs1Load, legs2Load)
        second == RiskierOnHeavier(baseRisk2, baseRisk1, legs2Load, legs1Load)
        newRisk1 == IF first THEN Times08(baseRisk1)
                    ELSE IF second THEN Times11(baseRisk1) ELSE baseRisk1
        newRisk2 == IF first THEN Times11(baseRisk2)
                    ELSE IF second THEN Times08(baseRisk2) ELSE baseRisk2
        totalNewRisk == newRisk1 + newRisk2
        improvement == Improvement(totalBaseRisk, totalNewRisk)
    IN  \* an error thrown by validateRotation goes through to the caller
        IF feasibility1.outcome # "returned" THEN [outcome |-> feasibility1.outcome]
        ELSE IF feasibility2.outcome # "returned" THEN [outcome |-> feasibility2.outcome]
        ELSE [ aircraftA |-> ac1, aircraftB |-> ac2,
               riskScoreA |-> newRisk1, riskScoreB |-> newRisk2,
               improvement |-> improvement, feasible |-> feasible,
               recommendation |-> Recommend(feasible, improvement) ]

\* The aircraft swapped: the old and the new one of the mock fleet, a twin of
\* the new one, three whose risks are 0.10, 0.20 and 0.30, and one whose
\* risk is 0.95.
SwapFleet ==
    { Aircraft("TC-JND", 15, 18900, 0, 5), Aircraft("TC-JNB", 2, 1200, 10, 0),
      Aircraft("TC-R95", 20, 20000, 10, 5),
      Aircraft("TC-JNX", 2, 1200, 10, 0),  Aircraft("TC-R10", 0, 5000, 10, 0),
      Aircraft("TC-R20", 0, 15000, 10, 0), Aircraft("TC-R30", 0, 25000, 10, 0) }

\* The leg sets swapped: LEGS_A and LEGS_B of the tail swap page, LEGS_A with
\* a connection of 20 minutes, LEGS_B returning from another station, one
\* leg, and none.
LEGS_A ==
    << FlightLeg("a1", <<"IST", "LHR">>, <<Clock(8, 0), Clock(10, 0)>>),
       FlightLeg("a2", <<"LHR", "IST">>, <<Clock(11, 0), Clock(15, 0)>>),
       FlightLeg("a3", <<"IST", "DXB">>, <<Clock(17, 0), Clock(22, 0)>>) >>

LEGS_B ==
    << FlightLeg("b1", <<"IST", "ESB">>, <<Clock(9, 0), Clock(10, 0)>>),
       FlightLeg("b2", <<"ESB", "IST">>, <<Clock(11, 0), Clock(12, 0)>>) >>

LegSets ==
    { LEGS_A, LEGS_B,
      [LEGS_A EXCEPT ![2].schedDep = Clock(10, 20)],
      [LEGS_B EXCEPT ![2].origin = "ADB"],
      <<LEGS_B[1]>>, <<>> }

\* The clock a call reads: 30 days to the hour after day 0, or an hour later.
SwapClocks == {720, 721}

NoScenario ==
    [ aircraftA |-> "none", aircraftB |-> "none", riskScoreA |-> 0, riskScoreB |-> 0,
      improvement |-> 0, feasible |-> FALSE, recommendation |-> "" ]

\* A caller holding two aircraft with their leg sets.
InitSwap ==
    /\ RotationIdle
    /\ PagesIdle
    /\ delay = Idle
    /\ maint = Idle
    /\ level = Idle
    /\ swap \in { sw \in [ pc : {"ready"}, acA : SwapFleet, legsA : LegSets,
                           acB : SwapFleet, legsB : LegSets,
                           now1 : SwapClocks, now2 : SwapClocks, scenario : {NoScenario},
                           now3 : {0}, now4 : {0}, mirror : {NoScenario} ] :
                    sw.now1 <= sw.now2 }

\* scenario = optimizeTailSwap(acA, legsA, acB, legsB)
OptimizeSwap ==
    /\ swap.pc = "ready"
    /\ swap' = [swap EXCEPT
                  !.pc = "done",
                  !.scenario = optimizeTailSwap(swap.acA, swap.legsA, swap.acB, swap.legsB,
                                                swap.now1, swap.now2)]
    /\ UNCHANGED <<rotationVars, delay, maint, level, pageVars>>

\* mirror = optimizeTailSwap(acB, legsB, acA, legsA): a later call with the
\* two sides exchanged, the clock read twice again.
OptimizeMirrored ==
    /\ swap.pc = "done"
    /\ \E now3 \in SwapClocks, now4 \in SwapClocks :
          /\ swap.now2 <= now3
          /\ now3 <= now4
          /\ swap' = [swap EXCEPT
                        !.pc = "mirrored", !.now3 = now3, !.now4 = now4,
                        !.mirror = optimizeTailSwap(swap.acB, swap.legsB, swap.acA, swap.legsA,
                                                    now3, now4)]
    /\ UNCHANGED <<rotationVars, delay, maint, level, pageVars>>

SpecSwap == InitSwap /\ [][OptimizeSwap \/ OptimizeMirrored]_vars

(***************************************************************************)
(* calculateDelayRisk                                                      *)
(***************************************************************************)
DelayInput(schedDepTime, prevDelayMinutes, aircraftType, weatherCondition) ==
    [ schedDepTime |-> schedDepTime, prevDelayMinutes |-> prevDelayMinutes,
      aircraftType |-> aircraftType, weatherCondition |-> weatherCondition ]

\* Variant: the afternoon penalty from 12:00 on.
TimePenaltyFromNoon(minutes) ==
    IF minutes > 1000 THEN Hundredths(20)
    ELSE IF minutes >= 720 THEN Hundredths(10)
    ELSE 0

\* 1. Time of day.
TimePenalty(minutes) ==
    IF minutes > 1000 THEN Hundredths(20)
    ELSE IF minutes > 720 THEN Hundredths(10)
    ELSE 0

\* Variant: the two weights exchanged.
PrevDelayPenaltyExchanged(prevDelayMinutes) ==
    IF prevDelayMinutes > 60 THEN Hundredths(20)
    ELSE IF prevDelayMinutes > 15 THEN Hundredths(40)
    ELSE 0

\* 2. Previous delay.
PrevDelayPenalty(prevDelayMinutes) ==
    IF prevDelayMinutes > 60 THEN Hundredths(40)
    ELSE IF prevDelayMinutes > 15 THEN Hundredths(20)
    ELSE 0

\* 3. Weather: the switch, whose default adds nothing.
WeatherPenalty(weatherCondition) ==
    CASE weatherCondition = "STORM" -> Hundredths(50)
      [] weatherCondition = "SNOW" -> Hundredths(40)
      [] weatherCondition = "FOG" -> Hundredths(30)
      [] weatherCondition = "RAIN" -> Hundredths(10)
      [] OTHER -> 0

\* 4. Aircraft type.
TypeAdjustment(aircraftType) ==
    IF aircraftType = "B737-MAX" \/ aircraftType = "A321neo" THEN Hundredths(5) ELSE 0

\* Variant: the ceiling of the maintenance scorer, 1.
ClampDelayToOne(score) == Min(Max(score, 0), Unit)

\* Math.min(Math.max(score, 0), 0.99)
ClampDelay(score) == Min(Max(score, 0), Hundredths(99))

\* A comparison with NaN is false: NaN minutes add nothing.
calculateDelayRisk(input) ==
    LET base == Hundredths(10)
        minutes == parseTime(input.schedDepTime)
        time == IF parseTimeIsNaN(input.schedDepTime) THEN 0 ELSE TimePenalty(minutes)
    IN  ClampDelay(base + time + PrevDelayPenalty(input.prevDelayMinutes)
                     + WeatherPenalty(input.weatherCondition)
                     - TypeAdjustment(input.aircraftType))

\* The inputs scored: departures at and around 12:00 and 16:40, inbound
\* delays at and around 15 and 60 minutes, an old and the two new types, the
\* five weather conditions.
DepartureTimes == { Clock(8, 0), Clock(12, 0), Clock(12, 1), Clock(16, 40), Clock(16, 41) }

PrevDelays == {0, 15, 16, 60, 61, 120}

AircraftTypes == {"B737-800", "B737-MAX", "A321neo"}

WeatherConditions == {"CLEAR", "RAIN", "SNOW", "STORM", "FOG"}

DelayInputs ==
    { DelayInput(t, d, a, w) :
        t \in DepartureTimes, d \in PrevDelays, a \in AircraftTypes, w \in WeatherConditions }

NoDelayScore == [input |-> DelayInput(<<>>, 0, "", ""), score |-> 0]

\* A caller holding a DelayInput.
InitDelay ==
    /\ RotationIdle
    /\ PagesIdle
    /\ maint = Idle
    /\ swap = Idle
    /\ level = Idle
    /\ delay \in [pc : {"ready"}, input : DelayInputs, score : {0}, before : {NoDelayScore}]

\* score = calculateDelayRisk(input)
ScoreDelay ==
    /\ delay.pc = "ready"
    /\ delay' = [delay EXCEPT !.pc = "once", !.score = calculateDelayRisk(delay.input)]
    /\ UNCHANGED <<rotationVars, maint, swap, level, pageVars>>

\* The caller changes the inbound delay alone and scores the input again.
ScoreOtherPrevDelay ==
    /\ delay.pc = "once"
    /\ \E d \in PrevDelays \ {delay.input.prevDelayMinutes} :
          LET input == [delay.input EXCEPT !.prevDelayMinutes = d]
          IN  delay' = [ pc |-> "twice", input |-> input,
                         score |-> calculateDelayRisk(input),
                         before |-> [input |-> delay.input, score |-> delay.score] ]
    /\ UNCHANGED <<rotationVars, maint, swap, level, pageVars>>

SpecDelay == InitDelay /\ [][ScoreDelay \/ ScoreOtherPrevDelay]_vars

(***************************************************************************)
(* The risk level of a score: calculateRiskLevel of the delay risk page    *)
(* and the label of RiskBadge.                                             *)
(***************************************************************************)
\* Variant: 0.25 itself still low.
calculateRiskLevelLowTo025(score) ==
    IF score <= Hundredths(25) THEN "low"
    ELSE IF score <= Hundredths(60) THEN "medium"
    ELSE "high"

calculateRiskLevel(score) ==
    IF score < Hundredths(25) THEN "low"
    ELSE IF score <= Hundredths(60) THEN "medium"
    ELSE "high"

\* riskLabel of RiskBadge.
RiskBadgeLabel(score) ==
    IF score > Hundredths(60) THEN "HIGH"
    ELSE IF score >= Hundredths(25) THEN "MEDIUM"
    ELSE "LOW"

\* The scores classified: every hundredth from 0 to ScoreSteps hundredths,
\* and the millionth below and above each threshold.
ScoreSteps == 100

Scores ==
    { Hundredths(n) : n \in 0..ScoreSteps }
        \cup { Hundredths(25) - 1, Hundredths(25) + 1, Hundredths(60) - 1, Hundredths(60) + 1 }

\* A score about to be shown.
InitLevel ==
    /\ RotationIdle
    /\ PagesIdle
    /\ delay = Idle
    /\ maint = Idle
    /\ swap = Idle
    /\ level \in [pc : {"ready"}, score : Scores, riskLevel : {""}, riskLabel : {""}]

\* The page computes the level of the score and the badge renders it.
ShowLevel ==
    /\ level.pc = "ready"
    /\ level' = [level EXCEPT !.pc = "shown",
                              !.riskLevel = calculateRiskLevel(level.score),
                              !.riskLabel = RiskBadgeLabel(level.score)]
    /\ UNCHANGED <<rotationVars, delay, maint, swap, pageVars>>

SpecLevel == InitLevel /\ [][ShowLevel]_vars

(***************************************************************************)
(* The caller: builds a leg collection, validates it, validates it again.  *)
(***************************************************************************)
Init ==
    /\ legs = <<>>
    /\ pc = "idle"
    /\ sortedLegs = <<>>
    /\ result = NoResult
    /\ prevResult = NoResult
    /\ legsBefore = <<>>
    /\ delay = Idle
    /\ maint = Idle
    /\ swap = Idle
    /\ level = Idle
    /\ PagesIdle

\* The caller appends a leg with a fresh id.
AddLeg ==
    /\ pc = "idle"
    /\ Len(legs) < MaxLegs
    /\ \E route \in Routes, schedule \in Schedules :
          legs' = Append(legs, FlightLeg(ToString(Len(legs) + 1), route, schedule))
    /\ UNCHANGED <<pc, sortedLegs, result, prevResult, legsBefore, engineVars>>

\* result = validateRotation(legs)
Validate ==
    /\ pc = "idle"
    /\ \E call \in {validateRotation(legs, result.conflicts)} :
           /\ legs' = call.arg
           /\ sortedLegs' = call.sortedLegs
           /\ result' = call.result
    /\ legsBefore' = legs
    /\ pc' = "once"
    /\ UNCHANGED <<prevResult, engineVars>>

\* A second call on the collection as the first call left it.
ValidateAgain ==
    /\ pc = "once"
    /\ \E call \in {validateRotation(legs, result.conflicts)} :
           /\ legs' = call.arg
           /\ sortedLegs' = call.sortedLegs
           /\ result' = call.result
    /\ prevResult' = result
    /\ legsBefore' = legs
    /\ pc' = "twice"
    /\ UNCHANGED engineVars

Next == AddLeg \/ Validate \/ ValidateAgain

Spec == Init /\ [][Next]_vars

(***************************************************************************)
(* A host service calling the four operations in any order while its clock  *)
(* runs.  Each call is kept with its arguments and what it returned.        *)
(***************************************************************************)
\* The engines' callers at rest.
EnginesIdle ==
    /\ delay = Idle
    /\ maint = Idle
    /\ swap = Idle
    /\ level = Idle

MaxCalls == 3

\* The legs of the rotation page's initial rotation.
PageLegs ==
    << FlightLeg("1", <<"IST", "LHR">>, <<Clock(8, 0), Clock(10, 0)>>),
       FlightLeg("2", <<"LHR", "IST">>, <<Clock(11, 30), Clock(15, 30)>>) >>

\* The arguments the host passes: the page's rotation, the same with a
\* connection of 20 minutes, the same with a second leg that overlaps and
\* leaves from another station; a delay input; the old and the new aircraft
\* of the mock fleet; the swap of the page, and a swap with a rotation that
\* has a conflict.
HostRotations ==
    { PageLegs, [PageLegs EXCEPT ![2].schedDep = Clock(10, 20)],
      [PageLegs EXCEPT ![2].origin = "JFK", ![2].schedDep = Clock(9, 0)] }

HostDelayInputs == { DelayInput(Clock(16, 41), 61, "A321neo", "STORM") }

HostAircraft == { Aircraft("TC-JND", 15, 18900, 0, 5), Aircraft("TC-JNB", 2, 1200, 10, 0) }

HostSwaps ==
    { <<Aircraft("TC-JND", 15, 18900, 0, 5), LEGS_A, Aircraft("TC-JNB", 2, 1200, 10, 0), LEGS_B>>,
      <<Aircraft("TC-JND", 15, 18900, 0, 5), LEGS_A,
        Aircraft("TC-JNB", 2, 1200, 10, 0), [LEGS_B EXCEPT ![2].origin = "ADB"]>> }

\* One call as the host sees it.
Call(op, args, value) == [op |-> op, args |-> args, value |-> value]

InitHost ==
    /\ RotationIdle
    /\ EnginesIdle
    /\ parse = Idle
    /\ delayPage = Idle
    /\ rotationPage = Idle
    /\ standalone = Idle
    /\ calls \in [pc : {"running"}, now : SwapClocks, stale : {<<>>}, log : {<<>>}]

\* The clock moves on between two calls.
Tick ==
    /\ calls.pc = "running"
    /\ \E later \in SwapClocks :
          /\ later > calls.now
          /\ calls' = [calls EXCEPT !.now = later]
    /\ UNCHANGED <<rotationVars, delay, maint, swap, level, parse, delayPage,
                   rotationPage, standalone>>

CallValidateRotation ==
    /\ calls.pc = "running"
    /\ Len(calls.log) < MaxCalls
    /\ \E legsArg \in HostRotations :
          \E call \in {validateRotation(legsArg, calls.stale)} :
             calls' = [calls EXCEPT
                         !.stale = call.result.conflicts,
                         !.log = Append(@, Call("validateRotation", <<legsArg>>, call.result))]
    /\ UNCHANGED <<rotationVars, delay, maint, swap, level, parse, delayPage,
                   rotationPage, standalone>>

CallDelayRisk ==
    /\ calls.pc = "running"
    /\ Len(calls.log) < MaxCalls
    /\ \E input \in HostDelayInputs :
          calls' = [calls EXCEPT
                      !.log = Append(@, Call("calculateDelayRisk", <<input>>,
                                             calculateDelayRisk(input)))]
    /\ UNCHANGED <<rotationVars, delay, maint, swap, level, parse, delayPage,
                   rotationPage, standalone>>

CallMaintenanceRisk ==
    /\ calls.pc = "running"
    /\ Len(calls.log) < MaxCalls
    /\ \E ac \in HostAircraft :
          calls' = [calls EXCEPT
                      !.log = Append(@, Call("calculateMaintenanceRisk", <<ac>>,
                                             calculateMaintenanceRisk(ac, calls.now)))]
    /\ UNCHANGED <<rotationVars, delay, maint, swap, level, parse, delayPage,
                   rotationPage, standalone>>

CallOptimizeTailSwap ==
    /\ calls.pc = "running"
    /\ Len(calls.log) < MaxCalls
    /\ \E args \in HostSwaps :
          calls' = [calls EXCEPT
                      !.log = Append(@, Call("optimizeTailSwap", args,
                                             optimizeTailSwap(args[1], args[2], args[3], args[4],
                                                              calls.now, calls.now)))]
    /\ UNCHANGED <<rotationVars, delay, maint, swap, level, parse, delayPage,
                   rotationPage, standalone>>

SpecHost ==
    /\ InitHost
    /\ [][ \/ Tick
          \/ CallValidateRotation
          \/ CallDelayRisk
          \/ CallMaintenanceRisk
          \/ CallOptimizeTailSwap ]_vars

(***************************************************************************)
(* A caller handing the engine a clock string, well-formed or not, and an   *)
(* aircraft record whose counts may be negative.  The engine has no throw   *)
(* statement: every call returns.                                           *)
(***************************************************************************)
\* The clock strings tried: every string of up to three characters of
\* "0", "9", ":" and "a", and every string cc:cc of "0", "2", "6" and "a".
TimeStrings ==
    LET ShortChars == {"0", "9", ":", "a"}
        FieldChars == {"0", "2", "6", "a"}
    IN  {<<>>}
            \cup { <<a>> : a \in ShortChars }
            \cup { <<a, b>> : a \in ShortChars, b \in ShortChars }
            \cup { <<a, b, c>> : a \in ShortChars, b \in ShortChars, c \in ShortChars }
            \cup { <<a, b, ":", c, d>> :
                     a \in FieldChars, b \in FieldChars, c \in FieldChars, d \in FieldChars }

\* The aircraft tried: the old one of the mock fleet, and the same with a
\* negative age, cycle count or snag count.
ParseAircraft ==
    { Aircraft("TC-JND", 15, 18900, 0, 5), Aircraft("TC-JND", 0 - 10, 18900, 0, 5),
      Aircraft("TC-JND", 15, 0 - 18900, 0, 5), Aircraft("TC-JND", 15, 18900, 0, 0 - 5) }

\* What a call ended with.  A number that may be NaN has nan set, and then
\* no value.
ReturnedNumber(n) == [outcome |-> "returned", nan |-> FALSE, value |-> n]

ReturnedNaN == [outcome |-> "returned", nan |-> TRUE, value |-> 0]

NotCalled == [outcome |-> "none", nan |-> FALSE, value |-> 0]

InitParse ==
    /\ RotationIdle
    /\ EnginesIdle
    /\ calls = Idle
    /\ delayPage = Idle
    /\ rotationPage = Idle
    /\ standalone = Idle
    /\ parse \in [ pc : {"ready"}, timeStr : TimeStrings, ac : ParseAircraft,
                   minutes : {NotCalled}, delayRisk : {NotCalled}, risk : {NotCalled} ]

\* minutes = parseTime(timeStr)
ParseTime ==
    /\ parse.pc = "ready"
    /\ parse.minutes = NotCalled
    /\ parse' = [parse EXCEPT
                   !.minutes = IF parseTimeIsNaN(parse.timeStr) THEN ReturnedNaN
                               ELSE ReturnedNumber(parseTime(parse.timeStr))]
    /\ UNCHANGED <<rotationVars, delay, maint, swap, level, calls, delayPage,
                   rotationPage, standalone>>

\* delayRisk = calculateDelayRisk({ schedDepTime: timeStr, ... })
ScoreDelayOfString ==
    /\ parse.pc = "ready"
    /\ parse.delayRisk = NotCalled
    /\ parse' = [parse EXCEPT
                   !.delayRisk = ReturnedNumber(calculateDelayRisk(
                                     DelayInput(parse.timeStr, 0, "B737-800", "CLEAR")))]
    /\ UNCHANGED <<rotationVars, delay, maint, swap, level, calls, delayPage,
                   rotationPage, standalone>>

\* risk = calculateMaintenanceRisk(ac), the clock 30 days and an hour after day 0.
ScoreAircraft ==
    /\ parse.pc = "ready"
    /\ parse.risk = NotCalled
    /\ parse' = [parse EXCEPT !.risk = ReturnedNumber(calculateMaintenanceRisk(parse.ac, 721))]
    /\ UNCHANGED <<rotationVars, delay, maint, swap, level, calls, delayPage,
                   rotationPage, standalone>>

SpecParse == InitParse /\ [][ParseTime \/ ScoreDelayOfString \/ ScoreAircraft]_vars

(***************************************************************************)
(* DelayRiskPage.  A state of the component is a record of its useState     *)
(* values and of the requests of handleCalculate that await the backend.    *)
(* A value that may be null is Null or Some(v).                             *)
(***************************************************************************)
Null == [null |-> TRUE]

Some(v) == [null |-> FALSE, value |-> v]

\* The page as it is mounted.
DelayPageMounted ==
    [ pc |-> "mounted",
      formData |-> DelayInput(Clock(8, 0), 0, "B737-800", "CLEAR"),
      riskScore |-> Null, riskLevel |-> Null, error |-> Null,
      isLoading |-> FALSE, inFlight |-> 0 ]

\* Variant: the button never disabled.
CalculateEnabledAlways(page) == TRUE

\* The Calculate button: disabled={isLoading}.
CalculateEnabled(page) == ~page.isLoading

\* Variant: handleCalculate without setError(null).
handleCalculateStartKeepError(page) ==
    [page EXCEPT !.isLoading = TRUE, !.riskScore = Null, !.riskLevel = Null,
                 !.inFlight = @ + 1]

\* handleCalculate up to its await: lines 30-36.
handleCalculateStart(page) ==
    [page EXCEPT !.isLoading = TRUE, !.error = Null, !.riskScore = Null,
                 !.riskLevel = Null, !.inFlight = @ + 1]

\* handleCalculate after a rejected await: catch and finally, lines 50-58.
handleCalculateCatch(page, message) ==
    [page EXCEPT !.error = Some(message), !.riskScore = Null, !.riskLevel = Null,
                 !.isLoading = FALSE, !.inFlight = @ - 1]

\* handleCalculate after a fulfilled await: lines 40-49 and finally.  The
\* response has a numeric riskScore (postDelayRisk rejects any other), and a
\* riskLevel or none.
handleCalculateThen(page, response) ==
    [page EXCEPT !.riskScore = Some(response.riskScore),
                 !.riskLevel = IF response.riskLevel # Null THEN response.riskLevel
                               ELSE Some(calculateRiskLevel(response.riskScore)),
                 !.isLoading = FALSE, !.inFlight = @ - 1]

\* The messages of the errors postDelayRisk throws (lines 244-250).
NotRespondingText ==
    "Backend server is not responding. Please make sure the backend is running on http://localhost:8000"

DelayErrorTexts == {"API Error: status - detail", NotRespondingText, "Request failed: message"}

\* What the backend may answer: a score with a level or without one.
ResponseScores ==
    { 0, Hundredths(25) - 1, Hundredths(25), Hundredths(60), Hundredths(60) + 1, Hundredths(99) }

DelayRiskResponses ==
    [ riskScore : ResponseScores,
      riskLevel : {Null} \cup { Some(l) : l \in {"low", "medium", "high"} } ]

\* The values the form offers for each field.
FormValues ==
    [ schedDepTime |-> {Clock(8, 0), Clock(16, 41)}, prevDelayMinutes |-> {0, 61},
      aircraftType |-> {"B737-800", "A321neo"}, weatherCondition |-> {"CLEAR", "STORM"} ]

InitDelayPage ==
    /\ RotationIdle
    /\ EnginesIdle
    /\ calls = Idle
    /\ parse = Idle
    /\ rotationPage = Idle
    /\ standalone = Idle
    /\ delayPage = DelayPageMounted

\* onChange of a form field: setFormData({ ...formData, field: value }).
EditForm ==
    /\ delayPage.pc = "mounted"
    /\ \E field \in DOMAIN FormValues : \E v \in FormValues[field] :
          /\ delayPage.formData[field] # v
          /\ delayPage' = [delayPage EXCEPT !.formData[field] = v]
    /\ UNCHANGED <<rotationVars, delay, maint, swap, level, calls, parse,
                   rotationPage, standalone>>

\* The user presses Calculate Risk.
PressCalculate ==
    /\ delayPage.pc = "mounted"
    /\ CalculateEnabled(delayPage)
    /\ delayPage' = handleCalculateStart(delayPage)
    /\ UNCHANGED <<rotationVars, delay, maint, swap, level, calls, parse,
                   rotationPage, standalone>>

\* The backend answers a request with a valid body.
DelayResponse ==
    /\ delayPage.pc = "mounted"
    /\ delayPage.inFlight > 0
    /\ \E response \in DelayRiskResponses :
          delayPage' = handleCalculateThen(delayPage, response)
    /\ UNCHANGED <<rotationVars, delay, maint, swap, level, calls, parse,
                   rotationPage, standalone>>

\* The request fails: an error status, no answer, or a body without a
\* numeric riskScore (thrown at line 232, rethrown at line 249).
DelayFailure ==
    /\ delayPage.pc = "mounted"
    /\ delayPage.inFlight > 0
    /\ \E message \in DelayErrorTexts :
          delayPage' = handleCalculateCatch(delayPage, message)
    /\ UNCHANGED <<rotationVars, delay, maint, swap, level, calls, parse,
                   rotationPage, standalone>>

SpecDelayPage == InitDelayPage /\ [][EditForm \/ PressCalculate \/ DelayResponse \/ DelayFailure]_vars

(***************************************************************************)
(* RotationPage.  The legs, the validation result shown, the API answer     *)
(* shown, isLoading, and the request of handleValidateAPI that awaits the   *)
(* backend (with the legs it was sent with).                                *)
(***************************************************************************)
MaxAdds == 2

\* What the user may enter as a new leg (origin, destination, schedDep,
\* schedArr all filled in): a leg that continues the initial rotation, and
\* one that conflicts with it.
NewLegs ==
    { <<<<"IST", "LHR">>, <<Clock(16, 15), Clock(18, 0)>>>>,
      <<<<"IST", "JFK">>, <<Clock(9, 0), Clock(11, 0)>>>> }

\* { isValid, conflicts } of a returned validation.
ValidationResult(returned) == [isValid |-> returned.isValid, conflicts |-> returned.conflicts]

\* The answer of the backend to POST /api/rotation/validate: the validation
\* of the legs of the request.
BackendValidate(legsSent) == ValidationResult(validateRotation(legsSent, <<>>).result)

RotationPageMounted ==
    [ pc |-> "mounted", legs |-> PageLegs, validationResult |-> Null, apiResponse |-> Null,
      isLoading |-> FALSE, pending |-> Null, added |-> 0 ]

\* Math.random().toString(), call by call: texts that differ from each other
\* and from the ids of the initial legs.
RandomIds == <<"0.25", "0.5", "0.75", "0.125", "0.625">>

\* handleAddLeg with the four fields filled in.
handleAddLeg(page, newLeg) ==
    [page EXCEPT !.legs = Append(@, FlightLeg(RandomIds[page.added + 1],
                                               newLeg[1], newLeg[2])),
                 !.validationResult = Null,
                 !.added = @ + 1]

\* legs.filter(l => l.id !== id)
RECURSIVE FilterOut(_, _)
FilterOut(ls, id) ==
    IF ls = <<>> THEN <<>>
    ELSE IF Head(ls).id # id THEN <<Head(ls)>> \o FilterOut(Tail(ls), id)
    ELSE FilterOut(Tail(ls), id)

handleRemoveLeg(page, id) ==
    [page EXCEPT !.legs = FilterOut(@, id), !.validationResult = Null]

runValidation(page) ==
    [page EXCEPT !.validationResult = Some(ValidationResult(validateRotation(page.legs, <<>>).result))]

\* handleValidateAPI up to its await: the request carries the legs of this
\* render.
handleValidateAPIStart(page) ==
    [page EXCEPT !.isLoading = TRUE, !.apiResponse = Null, !.pending = Some(page.legs)]

\* handleValidateAPI after a fulfilled await, and finally.
handleValidateAPIThen(page, response) ==
    [page EXCEPT !.apiResponse = Some(response),
                 !.validationResult = Some([isValid |-> response.isValid,
                                            conflicts |-> response.conflicts]),
                 !.isLoading = FALSE, !.pending = Null]

\* handleValidateAPI after a rejected await, and finally.
handleValidateAPICatch(page, message) ==
    [page EXCEPT !.apiResponse = Some([error |-> message]),
                 !.isLoading = FALSE, !.pending = Null]

NetworkErrorText == "Network Error"

InitRotationPage ==
    /\ RotationIdle
    /\ EnginesIdle
    /\ calls = Idle
    /\ parse = Idle
    /\ delayPage = Idle
    /\ standalone = Idle
    /\ rotationPage = RotationPageMounted

\* The user fills in the new leg and presses Add to Rotation.
AddLegOnPage ==
    /\ rotationPage.pc = "mounted"
    /\ rotationPage.added < MaxAdds
    /\ \E newLeg \in NewLegs : rotationPage' = handleAddLeg(rotationPage, newLeg)
    /\ UNCHANGED <<rotationVars, delay, maint, swap, level, calls, parse,
                   delayPage, standalone>>

\* The user presses the bin of a leg.
RemoveLegOnPage ==
    /\ rotationPage.pc = "mounted"
    /\ \E k \in 1..Len(rotationPage.legs) :
          rotationPage' = handleRemoveLeg(rotationPage, rotationPage.legs[k].id)
    /\ UNCHANGED <<rotationVars, delay, maint, swap, level, calls, parse,
                   delayPage, standalone>>

\* The user presses Validate (Local).
ValidateLocal ==
    /\ rotationPage.pc = "mounted"
    /\ rotationPage' = runValidation(rotationPage)
    /\ UNCHANGED <<rotationVars, delay, maint, swap, level, calls, parse,
                   delayPage, standalone>>

\* The user presses Validate (API): disabled={isLoading}.
ValidateAPI ==
    /\ rotationPage.pc = "mounted"
    /\ ~rotationPage.isLoading
    /\ rotationPage' = handleValidateAPIStart(rotationPage)
    /\ UNCHANGED <<rotationVars, delay, maint, swap, level, calls, parse,
                   delayPage, standalone>>

\* The backend answers the request.
RotationResponse ==
    /\ rotationPage.pc = "mounted"
    /\ rotationPage.pending # Null
    /\ rotationPage' = handleValidateAPIThen(rotationPage,
                                             BackendValidate(rotationPage.pending.value))
    /\ UNCHANGED <<rotationVars, delay, maint, swap, level, calls, parse,
                   delayPage, standalone>>

\* The request fails.
RotationFailure ==
    /\ rotationPage.pc = "mounted"
    /\ rotationPage.pending # Null
    /\ rotationPage' = handleValidateAPICatch(rotationPage, NetworkErrorText)
    /\ UNCHANGED <<rotationVars, delay, maint, swap, level, calls, parse,
                   delayPage, standalone>>

SpecRotationPage ==
    /\ InitRotationPage
    /\ [][ \/ AddLegOnPage
          \/ RemoveLegOnPage
          \/ ValidateLocal
          \/ ValidateAPI
          \/ RotationResponse
          \/ RotationFailure ]_vars

(***************************************************************************)
(* The four engine pages while the backend never answers: a request to it   *)
(* stays awaited or fails, and is never fulfilled.  The delay risk page and *)
(* the rotation page are the components above; standalone holds the         *)
(* maintenance page, the tail swap page, the clock, and the buttons the     *)
(* user has pressed.  Dates are day numbers, 2023-09-15 being day 0.        *)
(***************************************************************************)
AC_A == Aircraft("TC-JNA", 12, 14500, 16, 3)

AC_B == Aircraft("TC-JNB", 2, 1200, 47, 0)

MOCK_FLEET ==
    << Aircraft("TC-JNA", 12, 14500, 16, 2), Aircraft("TC-JNB", 4, 4200, 35, 0),
       Aircraft("TC-JNC", 2, 1800, 40, 1),   Aircraft("TC-JND", 15, 18900, 0, 5),
       Aircraft("TC-JNE", 8, 9500, 25, 3) >>

\* .sort((a, b) => b.riskScore - a.riskScore): stable, the highest risk first.
RECURSIVE InsertByRisk(_, _)
InsertByRisk(sorted, x) ==
    IF sorted = <<>> THEN <<x>>
    ELSE IF x.riskScore - Head(sorted).riskScore > 0 THEN <<x>> \o sorted
    ELSE <<Head(sorted)>> \o InsertByRisk(Tail(sorted), x)

RECURSIVE SortByRisk(_)
SortByRisk(arr) ==
    IF arr = <<>> THEN <<>>
    ELSE InsertByRisk(SortByRisk(SubSeq(arr, 1, Len(arr) - 1)), arr[Len(arr)])

\* MOCK_FLEET.map(ac => ({ ...ac, riskScore: calculateMaintenanceRisk(ac) })).sort(...)
AnalyzedFleet(now) ==
    SortByRisk([k \in 1..Len(MOCK_FLEET) |->
                  [ tailNumber |-> MOCK_FLEET[k].tailNumber,
                    riskScore |-> calculateMaintenanceRisk(MOCK_FLEET[k], now) ]])

\* The clock of the session: the day after the last maintenance of the mock
\* data, or a month later.
StandaloneClocks == { DateTime(48), DateTime(78) }

Buttons ==
    {"delay: Calculate Risk", "maintenance: Calculate (API)", "rotation: Validate (Local)",
     "rotation: Validate (API)", "swap: Optimize (Local)", "swap: Optimize (API)"}

InitStandalone ==
    /\ RotationIdle
    /\ EnginesIdle
    /\ calls = Idle
    /\ parse = Idle
    /\ delayPage = DelayPageMounted
    /\ rotationPage = RotationPageMounted
    /\ \E now \in StandaloneClocks :
          standalone =
              [ pc |-> "mounted", now |-> now, pressed |-> {},
                maintenance |-> [ analyzedFleet |-> AnalyzedFleet(now), error |-> Null,
                                  isLoading |-> FALSE ],
                swap |-> [result |-> Null, apiResponse |-> Null, isLoading |-> FALSE] ]

Pressed(button) == [standalone EXCEPT !.pressed = @ \cup {button}]

\* Delay risk page: Calculate Risk, which asks the backend.
StandaloneCalculate ==
    /\ standalone.pc = "mounted"
    /\ CalculateEnabled(delayPage)
    /\ delayPage' = handleCalculateStart(delayPage)
    /\ standalone' = Pressed("delay: Calculate Risk")
    /\ UNCHANGED <<rotationVars, delay, maint, swap, level, calls, parse, rotationPage>>

StandaloneCalculateFails ==
    /\ standalone.pc = "mounted"
    /\ delayPage.inFlight > 0
    /\ delayPage' = handleCalculateCatch(delayPage, NotRespondingText)
    /\ UNCHANGED <<rotationVars, delay, maint, swap, level, calls, parse, rotationPage,
                   standalone>>

\* Maintenance page: handleCalculateAPI up to its await, and its catch.
StandaloneFleet ==
    /\ standalone.pc = "mounted"
    /\ ~standalone.maintenance.isLoading
    /\ standalone' = [Pressed("maintenance: Calculate (API)") EXCEPT
                        !.maintenance.isLoading = TRUE, !.maintenance.error = Null]
    /\ UNCHANGED <<rotationVars, delay, maint, swap, level, calls, parse, delayPage,
                   rotationPage>>

StandaloneFleetFails ==
    /\ standalone.pc = "mounted"
    /\ standalone.maintenance.isLoading
    /\ standalone' = [standalone EXCEPT !.maintenance.isLoading = FALSE,
                                        !.maintenance.error = Some(NotRespondingText)]
    /\ UNCHANGED <<rotationVars, delay, maint, swap, level, calls, parse, delayPage,
                   rotationPage>>

\* Rotation page: the two Validate buttons.
StandaloneValidateLocal ==
    /\ standalone.pc = "mounted"
    /\ rotationPage' = runValidation(rotationPage)
    /\ standalone' = Pressed("rotation: Validate (Local)")
    /\ UNCHANGED <<rotationVars, delay, maint, swap, level, calls, parse, delayPage>>

StandaloneValidateAPI ==
    /\ standalone.pc = "mounted"
    /\ ~rotationPage.isLoading
    /\ rotationPage' = handleValidateAPIStart(rotationPage)
    /\ standalone' = Pressed("rotation: Validate (API)")
    /\ UNCHANGED <<rotationVars, delay, maint, swap, level, calls, parse, delayPage>>

StandaloneValidateFails ==
    /\ standalone.pc = "mounted"
    /\ rotationPage.pending # Null
    /\ rotationPage' = handleValidateAPICatch(rotationPage, NetworkErrorText)
    /\ UNCHANGED <<rotationVars, delay, maint, swap, level, calls, parse, delayPage,
                   standalone>>

\* Tail swap page: handleOptimize, and handleOptimizeAPI up to its await and
\* its catch.
StandaloneOptimize ==
    /\ standalone.pc = "mounted"
    /\ standalone' = [Pressed("swap: Optimize (Local)") EXCEPT
                        !.swap.result = Some(optimizeTailSwap(AC_A, LEGS_A, AC_B, LEGS_B,
                                                              standalone.now, standalone.now))]
    /\ UNCHANGED <<rotationVars, delay, maint, swap, level, calls, parse, delayPage,
                   rotationPage>>

StandaloneOptimizeAPI ==
    /\ standalone.pc = "mounted"
    /\ ~standalone.swap.isLoading
    /\ standalone' = [Pressed("swap: Optimize (API)") EXCEPT
                        !.swap.isLoading = TRUE, !.swap.apiResponse = Null]
    /\ UNCHANGED <<rotationVars, delay, maint, swap, level, calls, parse, delayPage,
                   rotationPage>>

StandaloneOptimizeFails ==
    /\ standalone.pc = "mounted"
    /\ standalone.swap.isLoading
    /\ standalone' = [standalone EXCEPT !.swap.isLoading = FALSE,
                                        !.swap.apiResponse = Some([error |-> NetworkErrorText])]
    /\ UNCHANGED <<rotationVars, delay, maint, swap, level, calls, parse, delayPage,
                   rotationPage>>

SpecStandalone ==
    /\ InitStandalone
    /\ [][ \/ StandaloneCalculate
          \/ StandaloneCalculateFails
          \/ StandaloneFleet
          \/ StandaloneFleetFails
          \/ StandaloneValidateLocal
          \/ StandaloneValidateAPI
          \/ StandaloneValidateFails
          \/ StandaloneOptimize
          \/ StandaloneOptimizeAPI
          \/ StandaloneOptimizeFails ]_vars

(***************************************************************************)
(* A caller that validates a rotation and then the same legs handed over   *)
(* in another order.                                                       *)
(***************************************************************************)
\* The legs rotations are made of: LEGS_A; a return leg that leaves 20
\* minutes after a1 arrives; a leg of LEGS_B's station that departs when a2
\* does; a night leg that arrives, by the clock, before it departs.
LegPool ==
    { LEGS_A[1], LEGS_A[2], LEGS_A[3],
      FlightLeg("a4", <<"LHR", "IST">>, <<Clock(10, 20), Clock(14, 0)>>),
      FlightLeg("b2", <<"ESB", "IST">>, <<Clock(11, 0), Clock(12, 0)>>),
      FlightLeg("n1", <<"DXB", "IST">>, <<Clock(23, 0), Clock(1, 0)>>) }

\* The rotations of up to MaxLegs different legs, in every order.
Rotations ==
    { ls \in UNION { [1..n -> LegPool] : n \in 0..MaxLegs } :
        \A i, j \in 1..Len(ls) : i # j => ls[i] # ls[j] }

\* The same legs in every order.
Reorderings(ls) ==
    { [k \in 1..Len(ls) |-> ls[p[k]]] :
        p \in { q \in [1..Len(ls) -> 1..Len(ls)] :
                  \A i, j \in 1..Len(ls) : i # j => q[i] # q[j] } }

InitOrder ==
    /\ legs \in Rotations
    /\ pc = "idle"
    /\ sortedLegs = <<>>
    /\ result = NoResult
    /\ prevResult = NoResult
    /\ legsBefore = <<>>
    /\ EnginesIdle
    /\ PagesIdle

\* A second call, on the same legs in another order.
ValidateReordered ==
    /\ pc = "once"
    /\ \E other \in Reorderings(legs) \ {legs} :
          \E call \in {validateRotation(other, result.conflicts)} :
             /\ legs' = call.arg
             /\ sortedLegs' = call.sortedLegs
             /\ result' = call.result
             /\ legsBefore' = other
    /\ prevResult' = result
    /\ pc' = "reordered"
    /\ UNCHANGED engineVars

SpecOrder == InitOrder /\ [][Validate \/ ValidateReordered]_vars

(***************************************************************************)
(* Vocabulary of the properties                                            *)
(***************************************************************************)
Answered == pc # "idle" /\ result.outcome = "returned"

DepMinute(leg) == parseTime(leg.schedDep)

ArrMinute(leg) == parseTime(leg.schedArr)

\* The adjacent pairs of the departure-sorted order: (Cur(k), Nxt(k)).
Pairs == 1..(Len(sortedLegs) - 1)

Cur(k) == sortedLegs[k]

Nxt(k) == sortedLegs[k + 1]

LocationText == "Location mismatch: Arr "

OverlapText == "Schedule Overlap: Arrives "

MCTText == "MCT Violation: Only "

\* The positions of the returned conflicts that satisfy P.
Where(P(_)) == { p \in 1..Len(result.conflicts) : P(result.conflicts[p]) }

\* The conflicts of a given kind (by the head of the reason) about a leg.
OfKind(id, text) == Where(LAMBDA c : c.legId = id /\ c.reason[1] = text)

About(id) == Where(LAMBDA c : c.legId = id)

WarningsAbout(id) == Where(LAMBDA c : c.legId = id /\ c.severity = "WARNING")

\* The gap that an MCT reason text reports, read back from the text.
ReportedGap(reason) == Number(SubSeq(reason, 2, Len(reason) - 4))

\* The position in sortedLegs of the leg with a given id.
PosOf(id) == CHOOSE k \in 1..Len(sortedLegs) : sortedLegs[k].id = id

\* C1: isValid is true exactly when the returned conflict list is empty; a
\* rotation whose conflicts are all WARNINGs is still reported invalid.
C1_ValidIffNoConflicts ==
    Answered =>
        /\ result.isValid <=> (result.conflicts = <<>>)
        /\ ( /\ result.conflicts # <<>>
             /\ \A p \in 1..Len(result.conflicts) : result.conflicts[p].severity = "WARNING" )
           => ~result.isValid

C1_Witness ==
    /\ Answered
    /\ Len(result.conflicts) = 1
    /\ result.conflicts[1].severity = "WARNING"
    /\ ~result.isValid

\* C2: an adjacent pair gets exactly one "Schedule Overlap" ERROR about the
\* later leg when the earlier leg arrives strictly after the later departs,
\* and then no WARNING; otherwise (an equal arrival included) it gets none.
C2_OverlapExactlyWhenArrivesLater ==
    Answered =>
        \A k \in Pairs :
            LET over == ArrMinute(Cur(k)) > DepMinute(Nxt(k))
                found == OfKind(Nxt(k).id, OverlapText)
            IN  /\ Cardinality(found) = IF over THEN 1 ELSE 0
                /\ \A p \in found :
                      /\ result.conflicts[p].severity = "ERROR"
                      /\ result.conflicts[p].reason =
                            <<OverlapText>> \o Cur(k).schedArr \o <<", Departs ">> \o Nxt(k).schedDep
                /\ over => WarningsAbout(Nxt(k).id) = {}

C2_Witness ==
    /\ Answered
    /\ \E k \in Pairs :
          /\ ArrMinute(Cur(k)) > DepMinute(Nxt(k))
          /\ Cardinality(OfKind(Nxt(k).id, OverlapText)) = 1
    /\ \E k \in Pairs :
          /\ ArrMinute(Cur(k)) = DepMinute(Nxt(k))
          /\ OfKind(Nxt(k).id, OverlapText) = {}

\* C3: an adjacent pair that does not overlap gets exactly one "MCT
\* Violation" WARNING about the later leg, reporting the gap, when the gap is
\* below 45 (so 0..44), and no WARNING when the gap is 45 or more.  08:00-10:00
\* then 11:30-15:30 gives no conflict; 08:00-10:00 then a departure at 10:20
\* gives one WARNING reporting 20.
C3_MCTWarningBelow45 ==
    Answered =>
        /\ \A k \in Pairs :
              LET gap == DepMinute(Nxt(k)) - ArrMinute(Cur(k))
                  found == OfKind(Nxt(k).id, MCTText)
              IN  gap >= 0 =>
                    /\ Cardinality(found) = IF gap < 45 THEN 1 ELSE 0
                    /\ WarningsAbout(Nxt(k).id) = found
                    /\ \A p \in found :
                          /\ ReportedGap(result.conflicts[p].reason) = gap
                          /\ gap \in 0..44
                          /\ result.conflicts[p].reason[Len(result.conflicts[p].reason) - 3]
                                = " min available (Req: "
                          /\ SubSeq(result.conflicts[p].reason,
                                    Len(result.conflicts[p].reason) - 2,
                                    Len(result.conflicts[p].reason)) = <<"4", "5", ")">>
        /\ ( /\ Len(legsBefore) = 2
             /\ <<legsBefore[1].origin, legsBefore[1].destination>> = <<"IST", "LHR">>
             /\ <<legsBefore[2].origin, legsBefore[2].destination>> = <<"LHR", "IST">>
             /\ <<legsBefore[1].schedDep, legsBefore[1].schedArr>> = <<Clock(8, 0), Clock(10, 0)>> )
           => /\ <<legsBefore[2].schedDep, legsBefore[2].schedArr>> = <<Clock(11, 30), Clock(15, 30)>>
                 => result.conflicts = <<>>
              /\ legsBefore[2].schedDep = Clock(10, 20)
                 => /\ Len(result.conflicts) = 1
                    /\ result.conflicts[1].severity = "WARNING"
                    /\ result.conflicts[1].legId = legsBefore[2].id
                    /\ ReportedGap(result.conflicts[1].reason) = 20

\* Gaps of 20 and of 44, each with its WARNING.
C3_Witness ==
    /\ Answered
    /\ \E k \in Pairs :
          /\ DepMinute(Nxt(k)) - ArrMinute(Cur(k)) = 44
          /\ Cardinality(WarningsAbout(Nxt(k).id)) = 1
    /\ \E k \in Pairs :
          /\ DepMinute(Nxt(k)) - ArrMinute(Cur(k)) = 20
          /\ Cardinality(WarningsAbout(Nxt(k).id)) = 1

\* C4: an adjacent pair gets exactly one "Location mismatch" ERROR about the
\* later leg, naming the earlier leg's destination and the later leg's
\* origin, when the two differ, and none when they are equal.
C4_LocationMismatchExactlyWhenStationsDiffer ==
    Answered =>
        \A k \in Pairs :
            LET found == OfKind(Nxt(k).id, LocationText)
            IN  /\ Cardinality(found) = IF Cur(k).destination # Nxt(k).origin THEN 1 ELSE 0
                /\ \A p \in found :
                      /\ result.conflicts[p].severity = "ERROR"
                      /\ result.conflicts[p].reason =
                            <<LocationText, Cur(k).destination, " != Dep ", Nxt(k).origin>>

C4_Witness ==
    /\ Answered
    /\ \E k \in Pairs :
          /\ Cur(k).destination # Nxt(k).origin
          /\ Cur(k).destination # Nxt(k).destination
          /\ Cardinality(OfKind(Nxt(k).id, LocationText)) = 1
    /\ \E k \in Pairs :
          /\ Cur(k).destination = Nxt(k).origin
          /\ OfKind(Nxt(k).id, LocationText) = {}

\* C5: an adjacent pair that both mismatches in station and overlaps in time
\* gets exactly two conflicts about the later leg, a location mismatch and an
\* overlap, both ERROR, and no WARNING.
C5_MismatchAndOverlapBothReported ==
    Answered =>
        \A k \in Pairs :
            ( /\ Cur(k).destination # Nxt(k).origin
              /\ ArrMinute(Cur(k)) > DepMinute(Nxt(k)) )
            => /\ Cardinality(About(Nxt(k).id)) = 2
               /\ Cardinality(OfKind(Nxt(k).id, LocationText)) = 1
               /\ Cardinality(OfKind(Nxt(k).id, OverlapText)) = 1
               /\ \A p \in About(Nxt(k).id) : result.conflicts[p].severity = "ERROR"

\* A->B 08:00-10:00 followed by C->D 09:00-11:00 with C # B.
C5_Witness ==
    /\ Answered
    /\ Len(sortedLegs) = 2
    /\ <<Cur(1).schedDep, Cur(1).schedArr>> = <<Clock(8, 0), Clock(10, 0)>>
    /\ <<Nxt(1).schedDep, Nxt(1).schedArr>> = <<Clock(9, 0), Clock(11, 0)>>
    /\ Cur(1).destination # Nxt(1).origin
    /\ Len(result.conflicts) = 2

\* C6: the pairwise checks run on the legs in ascending order of departure
\* minute, legs with the same departure minute in their input order: the
\* order holds the caller's legs, each once, so ordered, and every conflict is
\* about a pair adjacent in it.
C6_ChecksRunInStableDepartureOrder ==
    Answered =>
        /\ Len(sortedLegs) = Len(legsBefore)
        /\ \A i \in 1..Len(legsBefore) : \E k \in 1..Len(sortedLegs) : sortedLegs[k] = legsBefore[i]
        /\ \A i, j \in 1..Len(sortedLegs) :
              i < j => DepMinute(sortedLegs[i]) <= DepMinute(sortedLegs[j])
        /\ \A i, j \in 1..Len(legsBefore) :
              (i < j /\ DepMinute(legsBefore[i]) = DepMinute(legsBefore[j]))
              => PosOf(legsBefore[i].id) < PosOf(legsBefore[j].id)
        /\ \A p \in 1..Len(result.conflicts) :
              \E k \in Pairs :
                 /\ result.conflicts[p].legId = Nxt(k).id
                 /\ \/ result.conflicts[p].reason =
                          <<LocationText, Cur(k).destination, " != Dep ", Nxt(k).origin>>
                    \/ result.conflicts[p].reason =
                          <<OverlapText>> \o Cur(k).schedArr \o <<", Departs ">> \o Nxt(k).schedDep
                    \/ /\ result.conflicts[p].reason[1] = MCTText
                       /\ ReportedGap(result.conflicts[p].reason)
                             = DepMinute(Nxt(k)) - ArrMinute(Cur(k))

\* Three legs given out of departure order, two of them with one departure
\* minute, and a conflict between the tied legs.
C6_Witness ==
    /\ Answered
    /\ Len(legsBefore) = 3
    /\ sortedLegs # legsBefore
    /\ \E i, j \in 1..3 :
          /\ i < j
          /\ DepMinute(legsBefore[i]) = DepMinute(legsBefore[j])
          /\ PosOf(legsBefore[j].id) = PosOf(legsBefore[i].id) + 1
          /\ About(legsBefore[j].id) # {}

\* C7: the conflicts are listed in order of detection: those of an earlier
\* adjacent pair before those of a later pair, and within a pair the
\* location mismatch before the overlap or MCT conflict.
C7_ConflictsInDetectionOrder ==
    Answered =>
        \A p, q \in 1..Len(result.conflicts) :
            p < q =>
               \/ PosOf(result.conflicts[p].legId) < PosOf(result.conflicts[q].legId)
               \/ /\ PosOf(result.conflicts[p].legId) = PosOf(result.conflicts[q].legId)
                  /\ result.conflicts[p].reason[1] = LocationText
                  /\ result.conflicts[q].reason[1] \in {OverlapText, MCTText}

C7_Witness ==
    /\ Answered
    /\ Len(result.conflicts) >= 3
    /\ \E p \in 1..(Len(result.conflicts) - 2) :
          /\ PosOf(result.conflicts[p].legId) < PosOf(result.conflicts[p + 1].legId)
          /\ result.conflicts[p + 1].legId = result.conflicts[p + 2].legId
          /\ result.conflicts[p + 1].reason[1] = LocationText

\* C8: a call with no leg or with one leg does not fault and returns
\* isValid = true with an empty conflict list.
C8_ZeroOrOneLegIsValid ==
    (pc # "idle" /\ Len(legsBefore) <= 1)
    => result = [outcome |-> "returned", isValid |-> TRUE, conflicts |-> <<>>]

C8_Witness ==
    /\ pc # "idle"
    /\ Len(legsBefore) = 1
    /\ result.outcome = "returned"
    /\ result.isValid

\* C9: a call leaves the caller's leg collection as it was: the same legs in
\* the same order with the same fields.
C9_CallerLegsUnchanged ==
    pc # "idle" => legs = legsBefore

\* The call sorted its copy into another order than the caller's.
C9_Witness ==
    /\ Answered
    /\ sortedLegs # legsBefore
    /\ legs = legsBefore

\* C10: a second call on the same unmutated collection returns what the
\* first returned: the same isValid and the same conflicts in the same order.
C10_SecondCallSameResult ==
    pc = "twice" => result = prevResult

C10_Witness ==
    /\ pc = "twice"
    /\ result.outcome = "returned"
    /\ Len(result.conflicts) >= 2
    /\ result = prevResult

\* C16: for an aircraft with age, cycles and snag count >= 0 and any
\* maintenance date, at any clock reading, the maintenance risk r has
\* 0 <= r <= 1.
C16_MaintenanceRiskInUnitInterval ==
    maint.pc = "scored" => (0 <= maint.risk /\ maint.risk <= 1000000)

\* An aircraft whose weights sum past 1: the risk is 1.
C16_Witness ==
    /\ maint.pc = "scored"
    /\ maint.ac.ageYears = 40
    /\ maint.ac.snagCount = 12
    /\ maint.risk = 1000000

\* The days between the maintenance date and the clock reading are more
\* than 30 (in hours, more than 720).
MoreThan30Days(ac, now) == now - 24 * ac.lastMaintenance > 720

\* 0.05 + ageYears*0.015 + (cycles/10000)*0.10 + snagCount*0.08, plus 0.15
\* after more than 30 days, in millionths.
ReferenceMaintenanceSum(ac, now) ==
    50000 + ac.ageYears * 15000 + ac.cycles * 10 + ac.snagCount * 80000
        + (IF MoreThan30Days(ac, now) THEN 150000 ELSE 0)

\* C18: the maintenance risk is the reference sum clamped to [0, 1]; the
\* 0.15 is added exactly when more than 30 days have passed, so not at 30
\* days to the hour and not for a maintenance date in the future.
C18_MaintenanceRiskIsReferenceFormula ==
    maint.pc = "scored" =>
        LET sum == ReferenceMaintenanceSum(maint.ac, maint.now)
        IN  maint.risk = IF sum > 1000000 THEN 1000000 ELSE IF sum < 0 THEN 0 ELSE sum

\* 30 days to the hour after the maintenance: nothing is added.
C18_Witness ==
    /\ maint.pc = "scored"
    /\ maint.now - 24 * maint.ac.lastMaintenance = 720
    /\ maint.ac = Aircraft("TC-JNA", 2, 1200, maint.ac.lastMaintenance, 0)
    /\ maint.risk = 92000

\* The legs of ls that depart before leg i in departure order (ties in the
\* order given).
LegsBefore(ls, i) ==
    { k \in 1..Len(ls) :
        \/ DepMinute(ls[k]) < DepMinute(ls[i])
        \/ (DepMinute(ls[k]) = DepMinute(ls[i]) /\ k < i) }

\* A rotation without conflict: every leg leaves from where the leg before
\* it arrived, 45 minutes or more after that arrival.
ConflictFree(ls) ==
    \A i, j \in 1..Len(ls) :
        Cardinality(LegsBefore(ls, j)) = Cardinality(LegsBefore(ls, i)) + 1
        => /\ ls[i].destination = ls[j].origin
           /\ DepMinute(ls[j]) - ArrMinute(ls[i]) >= 45

Swapped == swap.pc = "done"

\* The base maintenance risks of the call and the leg counts.
RiskA == calculateMaintenanceRisk(swap.acA, swap.now1)

RiskB == calculateMaintenanceRisk(swap.acB, swap.now2)

LoadA == Len(swap.legsA)

LoadB == Len(swap.legsB)

\* The aircraft of strictly higher risk has strictly more legs.
Rescored ==
    \/ (RiskA > RiskB /\ LoadA > LoadB)
    \/ (RiskB > RiskA /\ LoadB > LoadA)

\* C11: feasible is true exactly when both leg sets validate without
\* conflict; it is a function of the two leg sets alone, whatever the two
\* aircraft are.
C11_FeasibleIffBothRotationsValid ==
    Swapped =>
        (swap.scenario.feasible <=> (ConflictFree(swap.legsA) /\ ConflictFree(swap.legsB)))

\* The high-risk aircraft (age 15, 18900 cycles, 5 snags) on the three legs
\* and a low-risk one on the two legs: feasible.
C11_Witness ==
    /\ Swapped
    /\ swap.acA = Aircraft("TC-JND", 15, 18900, 0, 5)
    /\ swap.acB = Aircraft("TC-JNB", 2, 1200, 10, 0)
    /\ swap.legsA = LEGS_A
    /\ swap.legsB = LEGS_B
    /\ swap.scenario.feasible
    /\ swap.scenario.improvement > 5000000
    /\ swap.scenario.recommendation = StrongText

\* C12: if riskA > riskB and A has more legs, riskScoreA = 0.8*riskA and
\* riskScoreB = 1.1*riskB; else if riskB > riskA and B has more legs,
\* riskScoreB = 0.8*riskB and riskScoreA = 1.1*riskA; in every other case
\* (equal risks or equal leg counts included) both are unchanged.
C12_ThreeWayRescoring ==
    Swapped =>
        IF RiskA > RiskB /\ LoadA > LoadB
        THEN /\ 10 * swap.scenario.riskScoreA = 8 * RiskA
             /\ 10 * swap.scenario.riskScoreB = 11 * RiskB
        ELSE IF RiskB > RiskA /\ LoadB > LoadA
        THEN /\ 10 * swap.scenario.riskScoreB = 8 * RiskB
             /\ 10 * swap.scenario.riskScoreA = 11 * RiskA
        ELSE /\ swap.scenario.riskScoreA = RiskA
             /\ swap.scenario.riskScoreB = RiskB

\* The second branch: B is riskier and has more legs.
C12_Witness ==
    /\ Swapped
    /\ RiskB > RiskA
    /\ LoadB > LoadA
    /\ 10 * swap.scenario.riskScoreB = 8 * RiskB
    /\ 10 * swap.scenario.riskScoreA = 11 * RiskA

\* C13: the recommendation is chosen in priority order: not feasible, then
\* improvement > 5 (strong), then improvement > 0 (marginal, an improvement
\* of exactly 5 included), then keep.
C13_RecommendationPriority ==
    Swapped =>
        swap.scenario.recommendation =
            IF ~swap.scenario.feasible THEN "Swap not feasible due to rotation conflicts."
            ELSE IF swap.scenario.improvement > 5000000
            THEN "STRONG RECOMMENDATION: Swap tails to mitigate maintenance risk on tight rotation."
            ELSE IF swap.scenario.improvement > 0 THEN "Marginal benefit. Swap at discretion."
            ELSE "Keep current assignment."

\* A feasible swap whose improvement is exactly 5: marginal.
C13_Witness ==
    /\ Swapped
    /\ swap.scenario.feasible
    /\ swap.scenario.improvement = 5000000
    /\ swap.scenario.recommendation = "Marginal benefit. Swap at discretion."

\* C14: improvement is (riskA + riskB - (riskScoreA + riskScoreB)) * 100; it
\* is > 0 when the aircraft of strictly higher risk has strictly more legs,
\* 0 in every other case, never negative; a feasible swap is answered "Keep
\* current assignment." exactly when nothing was re-scored.
C14_ImprovementPositiveIffRescored ==
    Swapped =>
        /\ swap.scenario.improvement =
              (RiskA + RiskB - (swap.scenario.riskScoreA + swap.scenario.riskScoreB)) * 100
        /\ Rescored => swap.scenario.improvement > 0
        /\ ~Rescored => swap.scenario.improvement = 0
        /\ swap.scenario.improvement >= 0
        /\ swap.scenario.feasible =>
              ((swap.scenario.recommendation = "Keep current assignment.") <=> ~Rescored)

\* A feasible swap of aircraft of different risk with equally many legs.
C14_Witness ==
    /\ Swapped
    /\ swap.scenario.feasible
    /\ RiskA > RiskB
    /\ LoadA = LoadB
    /\ LoadA > 0
    /\ swap.scenario.improvement = 0
    /\ swap.scenario.recommendation = "Keep current assignment."

DelayScored == delay.pc \in {"once", "twice"}

\* C15: for every DelayInput the delay risk s has 0 <= s <= 0.99; it never
\* reaches 1.
C15_DelayRiskAtMost099 ==
    DelayScored => (0 <= delay.score /\ delay.score <= 990000)

\* A late departure after a long inbound delay in a storm: 1.2 before the
\* clamp, 0.99 after it.
C15_Witness ==
    /\ DelayScored
    /\ delay.input = DelayInput(Clock(16, 41), 61, "B737-800", "STORM")
    /\ delay.score = 990000

\* The reference sum in hundredths: 0.10, the time, inbound delay and weather
\* weights, less the type adjustment.
ReferenceDelaySum(input) ==
    LET minute == parseTime(input.schedDepTime)
    IN  10
        + (IF minute > 1000 THEN 20 ELSE IF minute > 720 THEN 10 ELSE 0)
        + (IF input.prevDelayMinutes > 60 THEN 40
           ELSE IF input.prevDelayMinutes > 15 THEN 20 ELSE 0)
        + (IF input.weatherCondition = "STORM" THEN 50
           ELSE IF input.weatherCondition = "SNOW" THEN 40
           ELSE IF input.weatherCondition = "FOG" THEN 30
           ELSE IF input.weatherCondition = "RAIN" THEN 10 ELSE 0)
        - (IF input.aircraftType \in {"B737-MAX", "A321neo"} THEN 5 ELSE 0)

\* C17: the delay risk is the reference sum clamped to [0, 0.99]; a
\* departure at 12:00 gets no time weight and one at 16:40 gets 0.10.
C17_DelayRiskIsReferenceFormula ==
    DelayScored =>
        LET sum == ReferenceDelaySum(delay.input)
        IN  /\ delay.score = 10000 * (IF sum > 99 THEN 99 ELSE IF sum < 0 THEN 0 ELSE sum)
            /\ ( /\ delay.input.prevDelayMinutes = 0
                 /\ delay.input.weatherCondition = "CLEAR"
                 /\ delay.input.aircraftType = "B737-800" )
               => /\ delay.input.schedDepTime = Clock(12, 0) => delay.score = 100000
                  /\ delay.input.schedDepTime = Clock(16, 40) => delay.score = 200000

\* A departure at 16:40 with nothing else added: 0.20.
C17_Witness ==
    /\ DelayScored
    /\ delay.input = DelayInput(Clock(16, 40), 0, "B737-800", "CLEAR")
    /\ delay.score = 200000

\* C19: of two inputs that differ in the inbound delay alone, the one with
\* the larger inbound delay does not get the smaller score.
C19_DelayRiskMonotoneInPrevDelay ==
    delay.pc = "twice" =>
        /\ delay.before.input.prevDelayMinutes < delay.input.prevDelayMinutes
           => delay.before.score <= delay.score
        /\ delay.before.input.prevDelayMinutes > delay.input.prevDelayMinutes
           => delay.before.score >= delay.score

\* The inbound delay raised from 16 to 61 minutes: the score rises.
C19_Witness ==
    /\ delay.pc = "twice"
    /\ delay.before.input.prevDelayMinutes = 16
    /\ delay.input.prevDelayMinutes = 61
    /\ delay.before.score < delay.score

\* The canonical level of a score (in millionths): LOW below 0.25, MEDIUM
\* from 0.25 to 0.6, both included, HIGH above 0.6.
CanonicalLevel(score) ==
    IF score < 250000 THEN "LOW" ELSE IF score <= 600000 THEN "MEDIUM" ELSE "HIGH"

\* The level that a label of the delay page names.
LevelOf(riskLevel) ==
    CASE riskLevel = "low" -> "LOW"
      [] riskLevel = "medium" -> "MEDIUM"
      [] riskLevel = "high" -> "HIGH"
      [] OTHER -> "none"

\* C20: calculateRiskLevel and RiskBadge give every score the same level,
\* the canonical one (the page names the levels in lower case, the badge in
\* upper case).
C20_ClassifiersAgreeOnCanonicalRule ==
    level.pc = "shown" =>
        /\ LevelOf(level.riskLevel) = level.riskLabel
        /\ level.riskLabel = CanonicalLevel(level.score)

\* 0.6 itself: MEDIUM for both.
C20_Witness ==
    /\ level.pc = "shown"
    /\ level.score = 600000
    /\ level.riskLevel = "medium"
    /\ level.riskLabel = "MEDIUM"

\* Two calls of the host with the same operation and equal arguments.
SameCall(i, j) ==
    /\ calls.log[i].op = calls.log[j].op
    /\ calls.log[i].args = calls.log[j].args

CallsOf(ops) == { i \in 1..Len(calls.log) : calls.log[i].op \in ops }

\* C21: two calls of an operation with equal arguments return equal results,
\* whatever was called in between and whenever the calls were made.
C21_EqualArgumentsEqualResults ==
    calls.pc = "running" =>
        \A i, j \in CallsOf({"validateRotation", "calculateDelayRisk",
                             "calculateMaintenanceRisk", "optimizeTailSwap"}) :
            SameCall(i, j) => calls.log[i].value = calls.log[j].value

\* validateRotation and calculateDelayRisk, which read no clock, do.
C21_ClockFreeOperationsRepeat ==
    calls.pc = "running" =>
        \A i, j \in CallsOf({"validateRotation", "calculateDelayRisk"}) :
            SameCall(i, j) => calls.log[i].value = calls.log[j].value

SwapScenarioFields ==
    {"aircraftA", "aircraftB", "riskScoreA", "riskScoreB", "improvement", "feasible",
     "recommendation"}

\* The findings a conflict list may hold.
Findings(conflicts) ==
    \A k \in 1..Len(conflicts) :
        /\ conflicts[k].severity \in {"ERROR", "WARNING"}
        /\ DOMAIN conflicts[k] = {"legId", "reason", "severity"}

\* C22: a rotation with conflicts and a swap that is not feasible are
\* returned as data: validateRotation returns isValid and the list of its
\* ERROR and WARNING findings, optimizeTailSwap returns a complete
\* SwapScenario, with feasible = false when a rotation has conflicts; no
\* call ends in an error.
C22_NegativeDecisionsAreData ==
    \A i \in 1..Len(calls.log) :
        LET call == calls.log[i] IN
        /\ call.op = "validateRotation" =>
              /\ call.value.outcome = "returned"
              /\ Findings(call.value.conflicts)
              /\ ~ConflictFree(call.args[1]) =>
                    ~call.value.isValid /\ Len(call.value.conflicts) > 0
        /\ call.op = "optimizeTailSwap" =>
              /\ DOMAIN call.value = SwapScenarioFields
              /\ ~ConflictFree(call.args[2]) \/ ~ConflictFree(call.args[4]) =>
                    /\ call.value.feasible = FALSE
                    /\ call.value.recommendation = NotFeasibleText

\* A rotation with an ERROR and one with a WARNING were validated, and a
\* swap onto a rotation with a conflict was optimized.
C22_Witness ==
    /\ Len(calls.log) = 3
    /\ calls.log[1].op = "validateRotation"
    /\ \E k \in 1..Len(calls.log[1].value.conflicts) :
          calls.log[1].value.conflicts[k].severity = "ERROR"
    /\ calls.log[2].op = "validateRotation"
    /\ Len(calls.log[2].value.conflicts) = 1
    /\ calls.log[2].value.conflicts[1].severity = "WARNING"
    /\ calls.log[3].op = "optimizeTailSwap"
    /\ ~ConflictFree(calls.log[3].args[4])
    /\ calls.log[3].value.feasible = FALSE

IsDigit(ch) == ch \in {"0", "1", "2", "3", "4", "5", "6", "7", "8", "9"}

DigitOf(ch) == CHOOSE n \in 0..9 : ToString(n) = ch

HourOf(str) == DigitOf(str[1]) * 10 + DigitOf(str[2])

MinuteOf(str) == DigitOf(str[4]) * 10 + DigitOf(str[5])

\* HH:MM with HH in 0..23 and MM in 0..59.
WellFormedTime(str) ==
    /\ Len(str) = 5
    /\ str[3] = ":"
    /\ \A k \in {1, 2, 4, 5} : IsDigit(str[k])
    /\ HourOf(str) <= 23
    /\ MinuteOf(str) <= 59

NegativeCount(ac) == ac.ageYears < 0 \/ ac.cycles < 0 \/ ac.snagCount < 0

\* C23: a clock string that is not HH:MM makes parseTime and
\* calculateDelayRisk end in an InvalidTimeFormat error, a negative age,
\* cycle count or snag count makes calculateMaintenanceRisk end in an
\* error, and a well-formed string parses to HH*60+MM.
C23_MalformedInputFailsFast ==
    /\ parse.pc = "ready" /\ parse.minutes # NotCalled =>
          IF WellFormedTime(parse.timeStr)
          THEN parse.minutes = ReturnedNumber(HourOf(parse.timeStr) * 60 + MinuteOf(parse.timeStr))
          ELSE parse.minutes.outcome = "InvalidTimeFormat"
    /\ parse.pc = "ready" /\ parse.delayRisk # NotCalled /\ ~WellFormedTime(parse.timeStr) =>
          parse.delayRisk.outcome = "InvalidTimeFormat"
    /\ parse.pc = "ready" /\ parse.risk # NotCalled /\ NegativeCount(parse.ac) =>
          parse.risk.outcome \notin {"returned", "none"}

\* A well-formed string does parse to HH*60+MM.
C23_WellFormedParses ==
    parse.pc = "ready" /\ parse.minutes # NotCalled /\ WellFormedTime(parse.timeStr) =>
        parse.minutes = ReturnedNumber(HourOf(parse.timeStr) * 60 + MinuteOf(parse.timeStr))

\* What the code does with the other strings and counts: NaN, or a number
\* (as 26:00 gives 1560), and a score that the negative count lowered.
C23_MalformedIsNaNOrNumber ==
    /\ parse.pc = "ready" /\ parse.minutes # NotCalled =>
          parse.minutes.outcome = "returned"
    /\ parse.pc = "ready" /\ parse.delayRisk # NotCalled =>
          parse.delayRisk.outcome = "returned"
    /\ parse.pc = "ready" /\ parse.risk # NotCalled =>
          parse.risk.outcome = "returned"

\* C30: on the delay risk page a risk score and an error message are never
\* set together; while a request is in flight (isLoading) both are null; and
\* no request starts before the one before it has finished (at most one is
\* awaited, and isLoading tells whether one is).
C30_ScoreAndErrorExclusive ==
    delayPage.pc = "mounted" =>
        /\ ~(delayPage.riskScore # Null /\ delayPage.error # Null)
        /\ delayPage.isLoading => delayPage.riskScore = Null /\ delayPage.error = Null
        /\ delayPage.inFlight <= 1
        /\ delayPage.isLoading <=> delayPage.inFlight = 1

\* Calculate was pressed for an edited form: the request is in flight and
\* neither a score nor an error is shown.
C30_Witness ==
    /\ delayPage.pc = "mounted"
    /\ delayPage.isLoading
    /\ delayPage.inFlight = 1
    /\ delayPage.riskScore = Null
    /\ delayPage.error = Null
    /\ delayPage.formData.weatherCondition = "STORM"

\* The validation of the legs the rotation page shows.
ValidationOfShownLegs ==
    LET returned == validateRotation(rotationPage.legs, <<>>).result
    IN  [isValid |-> returned.isValid, conflicts |-> returned.conflicts]

\* C27: on the rotation page a validation result that is displayed is the
\* validation of the leg list currently shown.
C27_ShownResultIsOfShownLegs ==
    rotationPage.pc = "mounted" /\ rotationPage.validationResult # Null =>
        rotationPage.validationResult.value = ValidationOfShownLegs

\* With no API request awaited, the displayed result is the validation of
\* the legs shown.
C27_LocalResultIsOfShownLegs ==
    rotationPage.pc = "mounted" /\ rotationPage.validationResult # Null
        /\ rotationPage.apiResponse = Null /\ rotationPage.pending = Null =>
        rotationPage.validationResult.value = ValidationOfShownLegs

\* Adding or removing a leg clears the result.
C27_EditClearsResult ==
    [][rotationPage.pc = "mounted" /\ rotationPage'.legs # rotationPage.legs
          => rotationPage'.validationResult = Null]_vars

\* Every button was pressed and nothing is awaited any more.
AllSettled ==
    /\ standalone.pc = "mounted"
    /\ standalone.pressed = Buttons
    /\ ~delayPage.isLoading
    /\ ~rotationPage.isLoading
    /\ ~standalone.maintenance.isLoading
    /\ ~standalone.swap.isLoading

\* A page shows a result that the simulated engine computed.
DelayPageShows ==
    /\ delayPage.riskScore # Null
    /\ delayPage.riskScore.value = calculateDelayRisk(delayPage.formData)

MaintenancePageShows ==
    /\ Len(standalone.maintenance.analyzedFleet) = Len(MOCK_FLEET)
    /\ \A k \in 1..Len(MOCK_FLEET) : \E n \in 1..Len(MOCK_FLEET) :
          /\ standalone.maintenance.analyzedFleet[n].tailNumber = MOCK_FLEET[k].tailNumber
          /\ standalone.maintenance.analyzedFleet[n].riskScore
                = calculateMaintenanceRisk(MOCK_FLEET[k], standalone.now)

RotationPageShows ==
    /\ rotationPage.validationResult # Null
    /\ rotationPage.validationResult.value = ValidationOfShownLegs

SwapPageShows ==
    /\ standalone.swap.result # Null
    /\ standalone.swap.result.value.aircraftA = AC_A
    /\ standalone.swap.result.value.feasible

\* C24: with the backend never answering, each of the four engine pages
\* shows a result computed by the simulated engine once the user has
\* triggered its calculations and they have ended.
C24_StandalonePagesShowResults ==
    AllSettled =>
        DelayPageShows /\ MaintenancePageShows /\ RotationPageShows /\ SwapPageShows

\* The maintenance, rotation and tail swap pages do.
C24_ThreePagesShowResults ==
    AllSettled => MaintenancePageShows /\ RotationPageShows /\ SwapPageShows

\* The delay risk page never shows a score.
C24_DelayPageShowsNothing ==
    standalone.pc = "mounted" => delayPage.riskScore = Null

\* Leg i of ls comes before leg j in departure order (the stable order).
DepartsBefore(ls, i, j) ==
    \/ DepMinute(ls[i]) < DepMinute(ls[j])
    \/ DepMinute(ls[i]) = DepMinute(ls[j]) /\ i < j

\* C25: when validateRotation returns isValid = true, every leg departs 45
\* minutes or more after the arrival of every leg before it in departure
\* order, adjacent or not, and each leg's destination is the origin of the
\* leg that departs next.
C25_ValidRotationIsFeasibleThroughout ==
    (Answered /\ result.isValid) =>
        \A i, j \in 1..Len(legsBefore) :
            DepartsBefore(legsBefore, i, j) =>
                /\ ArrMinute(legsBefore[i]) + 45 <= DepMinute(legsBefore[j])
                /\ Cardinality(LegsBefore(legsBefore, j))
                      = Cardinality(LegsBefore(legsBefore, i)) + 1
                   => legsBefore[i].destination = legsBefore[j].origin

\* A valid rotation of three legs handed over out of order.
C25_Witness ==
    /\ Answered
    /\ result.isValid
    /\ Len(legsBefore) = 3
    /\ sortedLegs # legsBefore

DistinctDepartures(ls) ==
    \A i, j \in 1..Len(ls) : i # j => DepMinute(ls[i]) # DepMinute(ls[j])

\* C29: for legs with pairwise distinct departure times, the legs handed
\* over in another order give the same isValid and the same conflict list.
C29_ResultIndependentOfInputOrder ==
    (pc = "reordered" /\ DistinctDepartures(legsBefore)) =>
        /\ result.outcome = "returned"
        /\ prevResult.outcome = "returned"
        /\ result.isValid = prevResult.isValid
        /\ result.conflicts = prevResult.conflicts

\* Three legs with distinct departures, validated in two orders, with two
\* conflicts or more.
C29_Witness ==
    /\ pc = "reordered"
    /\ DistinctDepartures(legsBefore)
    /\ Len(legsBefore) = 3
    /\ Len(result.conflicts) >= 2
    /\ result.conflicts = prevResult.conflicts

\* C26: the projected risk scores of a SwapScenario lie in [0, 1].
C26_ProjectedRisksInUnitInterval ==
    swap.pc = "done" =>
        /\ 0 <= swap.scenario.riskScoreA /\ swap.scenario.riskScoreA <= Unit
        /\ 0 <= swap.scenario.riskScoreB /\ swap.scenario.riskScoreB <= Unit

\* The projected risk scores do lie in [0, 1.1]: a base risk is at most 1 and
\* is at most multiplied by 1.1.
C26_ProjectedRisksAtMost110 ==
    swap.pc = "done" =>
        /\ 0 <= swap.scenario.riskScoreA /\ swap.scenario.riskScoreA <= Hundredths(110)
        /\ 0 <= swap.scenario.riskScoreB /\ swap.scenario.riskScoreB <= Hundredths(110)

\* The scenario of the second call is the scenario of the first with the two
\* sides exchanged.
Mirrored ==
    /\ swap.mirror.feasible = swap.scenario.feasible
    /\ swap.mirror.improvement = swap.scenario.improvement
    /\ swap.mirror.recommendation = swap.scenario.recommendation
    /\ swap.mirror.riskScoreA = swap.scenario.riskScoreB
    /\ swap.mirror.riskScoreB = swap.scenario.riskScoreA
    /\ swap.mirror.aircraftA = swap.scenario.aircraftB
    /\ swap.mirror.aircraftB = swap.scenario.aircraftA

\* C28: optimizeTailSwap(acB, legsB, acA, legsA) returns the same feasible
\* flag, improvement and recommendation as optimizeTailSwap(acA, legsA, acB,
\* legsB), with the two risk scores and the two aircraft exchanged.
C28_SwapIsSymmetric ==
    swap.pc = "mirrored" => Mirrored

\* It does when the clock reads the same in both calls.
C28_SymmetricAtOneClockReading ==
    (swap.pc = "mirrored" /\ swap.now1 = swap.now4) => Mirrored

====
